---- MODULE Spec2Model ----
(***************************************************************************)
(* Model of the honeycomb GeoTIFF loader (geoTiffModelLoader.ts) and of    *)
(* the ViewerContainer React component (ViewerContainer.tsx).              *)
(*                                                                         *)
(* Strings are sequences of one-character strings, so that the regular     *)
(* expression replacements and parseInt are computed character by          *)
(* character.  JavaScript numbers that may be NaN are records: Num(n) or   *)
(* NaN.  An absent property is a key missing from the DOMAIN of the        *)
(* object's record.                                                        *)
(***************************************************************************)
EXTENDS Integers, Sequences, FiniteSets, TLC

VARIABLES
    \* ---- GeoTiffDEMFileReader.parse
    citation,        \* how the GTCitationGeoKey of the input was built
    image,           \* the decoded DEM image: fileDirectory, geoKeys, raster size
    demResult,       \* outcome of GeoTiffDEMFileReader.parse
    \* ---- loadGeoTiff
    path,            \* the DEM path, also its LoadingManager id
    options,         \* the options object; orthophotoPath may be missing
    pc,              \* position of the promise chain of loadGeoTiff
    started,         \* LoadingManager: id -> number of itemStart(id) calls
    ended,           \* LoadingManager: id -> number of itemEnd(id) calls
    promise,         \* the promise loadGeoTiff returned
    chain,           \* the inner promise gtReader.load(..).then(..).finally(..)
    demFetch,        \* the terrain fetch and decode: none, inflight, ok, fail
    orthoFetch,      \* the orthophoto fetch, decode and parse, likewise
    material,        \* the terrain mesh material's texture stamp fields
    \* ---- GeoTiffOrthoPhotoFileReader.parse
    raster,          \* the decoded orthophoto: width, height, number of bands
    texture,         \* the DataTexture parse returned, or NoTexture
    \* ---- getGeoCoords
    scene,           \* the scene graph: node -> parent, userData, world origin
    geoCall,         \* the arguments of getGeoCoords: worldPoint, terrain
    geoResult,       \* what getGeoCoords returned
    \* ---- ViewerContainer
    phase,           \* constructed, mounted or unmounted
    propsViewer,     \* this.props.viewer
    viewers,         \* viewer -> its size, pixel ratio, canvas style, restarts
    containerSize,   \* offsetWidth and offsetHeight of the container element
    containerChildren, \* the viewers whose domElement is in the container
    lastContentRect, \* this.lastContentRect
    observing,       \* the ResizeObserver observes the container
    windowListeners, \* the 'resize' listeners of window: bound functions
    boundCount,      \* how many functions bind() has made
    resizeTask,      \* the debouncer's pending 'resize' task
    events,          \* how many resize events and prop changes happened
    devicePixelRatio, \* window.devicePixelRatio
    affineCall,      \* the arguments of a call of affineTransform
    affineResult     \* what the call returned

demVars == <<citation, image, demResult>>
loadVars ==
    <<path, options, pc, started, ended, promise, chain, demFetch, orthoFetch, material>>
orthoVars == <<raster, texture>>
geoVars == <<scene, geoCall, geoResult>>
viewVars ==
    <<phase, propsViewer, viewers, containerSize, containerChildren,
      lastContentRect, observing, windowListeners, boundCount, resizeTask,
      events, devicePixelRatio>>
affineVars == <<affineCall, affineResult>>
vars == <<demVars, loadVars, orthoVars, geoVars, viewVars, affineVars>>

\* What the operations of one part leave alone.
outsideDEM == <<loadVars, orthoVars, geoVars, viewVars, affineVars>>
outsideOrtho == <<demVars, loadVars, geoVars, viewVars, affineVars>>
outsideLoad == <<geoVars, viewVars, affineVars>>
outsideGeo == <<demVars, loadVars, orthoVars, viewVars, affineVars>>
outsideView == <<demVars, loadVars, orthoVars, geoVars, affineVars>>
outsideAffine == <<demVars, loadVars, orthoVars, geoVars, viewVars>>

-----------------------------------------------------------------------------
(* JavaScript values *)

NaN == [nan |-> TRUE]
Num(n) == [num |-> n]
Undefined == [undefined |-> TRUE]

Digits == <<"0", "1", "2", "3", "4", "5", "6", "7", "8", "9">>
DigitChars == {Digits[i] : i \in 1..10}
LetterChars == {"N", "S", "a", "m", "W", "U", "T", "M", "z", "o", "n", "e"}
WhiteSpaceChars == {" ", "\n"}
LineTerminators == {"\n"}

DigitValue(c) == (CHOOSE i \in 1..10 : Digits[i] = c) - 1

\* Decimal text of a natural number, as String(n) writes it.
RECURSIVE DecimalText(_)
DecimalText(n) ==
    IF n < 10 THEN <<Digits[n + 1]>>
    ELSE DecimalText(n \div 10) \o <<Digits[(n % 10) + 1]>>

\* The literal text of the regular expression /.*UTM zone /.
UTMZONE == <<"U", "T", "M", " ", "z", "o", "n", "e", " ">>

Tail0(s, k) == SubSeq(s, k, Len(s))

SetMinimum(S) == CHOOSE x \in S : \A y \in S : x <= y
SetMaximum(S) == CHOOSE x \in S : \A y \in S : y <= x

\* Length of the longest prefix of s made of characters of set cs.
RECURSIVE PrefixRun(_, _)
PrefixRun(s, cs) ==
    IF s = <<>> \/ Head(s) \notin cs THEN 0 ELSE 1 + PrefixRun(Tail(s), cs)

-----------------------------------------------------------------------------
(* GeoTiffDEMFileReader.parse: the zone number and letter of the citation *)

\* s.replace(/.*UTM zone /, ""): the leftmost match, '.*' greedy and never
\* crossing a line terminator; the string is returned as is without a match.
UtmMatchEnds(s, i) ==
    {j \in i..(Len(s) - Len(UTMZONE) + 1) :
        /\ SubSeq(s, j, j + Len(UTMZONE) - 1) = UTMZONE
        /\ \A k \in i..(j - 1) : s[k] \notin LineTerminators}

ReplaceUtmZone(s) ==
    LET from == {i \in 1..Len(s) : UtmMatchEnds(s, i) # {}}
    IN  IF from = {} THEN s
        ELSE LET i == SetMinimum(from)
                 j == SetMaximum(UtmMatchEnds(s, i))
             IN  SubSeq(s, 1, i - 1) \o Tail0(s, j + Len(UTMZONE))

\* s.replace(/[A-Za-z]*/, ""): the first match is at index 0 and may be empty.
ReplaceLetters(s) == Tail0(s, PrefixRun(s, LetterChars) + 1)

\* s.replace(/[0-9]*/, ""): likewise.
ReplaceDigits(s) == Tail0(s, PrefixRun(s, DigitChars) + 1)

RECURSIVE DecimalValue(_)
DecimalValue(ds) ==
    IF ds = <<>> THEN 0
    ELSE 10 * DecimalValue(SubSeq(ds, 1, Len(ds) - 1)) + DigitValue(ds[Len(ds)])

\* parseInt(s) without a radix: leading white space, an optional sign, then the
\* longest run of decimal digits; NaN when there is none.
ParseInt(s) ==
    LET t == Tail0(s, PrefixRun(s, WhiteSpaceChars) + 1)
        neg == t # <<>> /\ Head(t) = "-"
        u == IF t # <<>> /\ Head(t) \in {"+", "-"} THEN Tail(t) ELSE t
        n == PrefixRun(u, DigitChars)
    IN  IF n = 0 THEN NaN
        ELSE Num((IF neg THEN -1 ELSE 1) * DecimalValue(SubSeq(u, 1, n)))

NumberAndLetter(gtCitationGeoKey) == ReplaceUtmZone(gtCitationGeoKey)

UtmZoneNumber(gtCitationGeoKey) ==
    ParseInt(ReplaceLetters(NumberAndLetter(gtCitationGeoKey)))

UtmZoneLetter(gtCitationGeoKey) ==
    ReplaceDigits(NumberAndLetter(gtCitationGeoKey))

-----------------------------------------------------------------------------
(* GeoTiffDEMFileReader.parse *)

DefaultPosition == <<0, 0, 0>>

Has(obj, key) == key \in DOMAIN obj

\* terrain.position after lines 250-257.
TerrainPosition(fileDirectory) ==
    IF Has(fileDirectory, "ModelTiepoint")
    THEN <<fileDirectory.ModelTiepoint[4],
           fileDirectory.ModelTiepoint[5],
           fileDirectory.ModelTiepoint[6]>>
    ELSE DefaultPosition

\* const [sx, sy, _sz] = s; const [_px, _py, _k, gx, gy, _gz] = t;
\* destructuring undefined throws a TypeError.
DestructureThrows(fileDirectory) ==
    \/ ~Has(fileDirectory, "ModelPixelScale")
    \/ ~Has(fileDirectory, "ModelTiepoint")

PixelToGPS(fileDirectory) ==
    LET s == fileDirectory.ModelPixelScale
        t == fileDirectory.ModelTiepoint
    IN  <<t[4], s[1], 0, t[5], 0, -s[2]>>

Thrown(what) == [status |-> "throw", error |-> what]

\* The value the promise of parse settles with: the terrain, or the error.
DEMParse(img) ==
    LET fd == img.fileDirectory
    IN  IF DestructureThrows(fd)
        THEN Thrown("TypeError: undefined is not iterable")
        ELSE IF ~Has(img.geoKeys, "GTCitationGeoKey")
        THEN Thrown("TypeError: cannot read properties of undefined (reading 'replace')")
        ELSE [status |-> "ok",
              terrain |->
                [position |-> TerrainPosition(fd),
                 bounds2 |-> <<-(img.width - 1), -(img.height - 1),
                               img.width - 1, img.height - 1>>,
                 samples |-> <<img.width, img.height>>,
                 geoCoords |->
                   [dem |-> [width |-> img.width,
                             height |-> img.height,
                             pixelToGPS |-> PixelToGPS(fd),
                             utmZoneNumber |->
                                UtmZoneNumber(img.geoKeys.GTCitationGeoKey),
                             utmZoneLetter |->
                                UtmZoneLetter(img.geoKeys.GTCitationGeoKey)]]]]

-----------------------------------------------------------------------------
(* IEEE-754 binary64 arithmetic on positive values, as the JavaScript        *)
(* operators / and * and Math.floor compute it.  A double is [m, e]: m the    *)
(* 53 bits of the significand, most significant first and starting with 1,   *)
(* and e the exponent of its last bit, so that the value is m * 2^e.         *)

SignificandBits == 53

\* Long arithmetic works on limbs of LimbBits bits, most significant first.
LimbBits == 8
LimbBase == 2^LimbBits
QuotientLimbs == 10

\* The binary digits of n, most significant first; none for 0.
BinaryBits(n) ==
    LET w == SetMinimum({k \in 0..30 : n < 2^k})
    IN  [i \in 1..w |-> (n \div 2^(w - i)) % 2]

RECURSIVE BitsValue(_)
BitsValue(bits) ==
    IF bits = <<>> THEN 0
    ELSE 2 * BitsValue(SubSeq(bits, 1, Len(bits) - 1)) + bits[Len(bits)]

LimbsToBits(limbs) ==
    [i \in 1..(LimbBits * Len(limbs)) |->
        (limbs[((i - 1) \div LimbBits) + 1]
            \div 2^(LimbBits - 1 - ((i - 1) % LimbBits))) % 2]

\* bits, padded in front with zeros to whole limbs.
BitsToLimbs(bits) ==
    LET n == (Len(bits) + LimbBits - 1) \div LimbBits
        padded == [i \in 1..(n * LimbBits - Len(bits)) |-> 0] \o bits
    IN  [k \in 1..n |->
            BitsValue(SubSeq(padded, (k - 1) * LimbBits + 1, k * LimbBits))]

StripZeros(bits) ==
    LET ones == {i \in 1..Len(bits) : bits[i] = 1}
    IN  IF ones = {} THEN <<>> ELSE SubSeq(bits, SetMinimum(ones), Len(bits))

\* bits + 1 on a bit string of fixed length; carry tells it wrapped to zero.
Increment(bits) ==
    LET zeros == {i \in 1..Len(bits) : bits[i] = 0}
    IN  IF zeros = {} THEN [bits |-> [i \in 1..Len(bits) |-> 0], carry |-> 1]
        ELSE LET p == SetMaximum(zeros)
             IN  [bits |-> [i \in 1..Len(bits) |->
                              IF i < p THEN bits[i] ELSE IF i = p THEN 1 ELSE 0],
                  carry |-> 0]

\* Round to nearest, ties to even: the double nearest to bits * 2^elsb (plus a
\* nonzero tail below the last bit when sticky), bits starting with 1.
RoundToDouble(bits, elsb, sticky) ==
    LET n == Len(bits)
    IN  IF n <= SignificandBits
        THEN [m |-> bits \o [i \in 1..(SignificandBits - n) |-> 0],
              e |-> elsb - (SignificandBits - n)]
        ELSE LET kept == SubSeq(bits, 1, SignificandBits)
                 guard == bits[SignificandBits + 1]
                 rest == \/ sticky
                         \/ \E i \in (SignificandBits + 2)..n : bits[i] = 1
                 roundUp == guard = 1 /\ (rest \/ kept[SignificandBits] = 1)
                 e0 == elsb + (n - SignificandBits)
                 up == Increment(kept)
             IN  IF ~roundUp THEN [m |-> kept, e |-> e0]
                 ELSE IF up.carry = 0 THEN [m |-> up.bits, e |-> e0]
                 ELSE [m |-> <<1>> \o SubSeq(up.bits, 1, SignificandBits - 1),
                       e |-> e0 + 1]

\* Long division: count limbs of r / d (r < d) after the binary point, and
\* the remainder left.
RECURSIVE QuotientLimbsOf(_, _, _, _)
QuotientLimbsOf(r, d, count, acc) ==
    IF count = 0 THEN [limbs |-> acc, rem |-> r]
    ELSE QuotientLimbsOf((r * LimbBase) % d, d, count - 1,
                         Append(acc, (r * LimbBase) \div d))

\* n / d for integers n, d > 0 (d below 2^22, so that no step overflows).
DoubleDivide(n, d) ==
    LET whole == BinaryBits(n \div d)
        q == QuotientLimbsOf(n % d, d, QuotientLimbs, <<>>)
        all == whole \o LimbsToBits(q.limbs)
        bits == StripZeros(all)
    IN  RoundToDouble(bits, -(LimbBits * QuotientLimbs), q.rem # 0)

\* The limbs of limbs * k, from the last limb upwards.
RECURSIVE TimesSmall(_, _, _, _, _)
TimesSmall(limbs, k, i, carry, acc) ==
    IF i = 0 THEN BinaryBits(carry) \o LimbsToBits(acc)
    ELSE LET t == limbs[i] * k + carry
         IN  TimesSmall(limbs, k, i - 1, t \div LimbBase, <<t % LimbBase>> \o acc)

\* k * x for an integer k > 0 (below 2^22) and a double x.
DoubleTimes(k, x) ==
    LET limbs == BitsToLimbs(x.m)
    IN  RoundToDouble(StripZeros(TimesSmall(limbs, k, Len(limbs), 0, <<>>)),
                      x.e, FALSE)

\* Math.floor(x) for a double x > 0.
DoubleFloor(x) ==
    IF x.e >= 0 THEN BitsValue(x.m) * 2^(x.e)
    ELSE IF SignificandBits + x.e <= 0 THEN 0
    ELSE BitsValue(SubSeq(x.m, 1, SignificandBits + x.e))

-----------------------------------------------------------------------------
(* GeoTiffOrthoPhotoFileReader.parse *)

maxTextureSize == 4096

NoTexture == [none |-> TRUE]

NeedsDownsample(width, height) ==
    width > maxTextureSize \/ height > maxTextureSize

\* const factor = width > height ? maxTextureSize / width : maxTextureSize / height;
DownsampleFactor(width, height) ==
    IF width > height THEN DoubleDivide(maxTextureSize, width)
    ELSE DoubleDivide(maxTextureSize, height)

\* The mutant cuts each side to maxTextureSize by itself.
ClampedTextureSize(width, height) ==
    <<IF width > maxTextureSize THEN maxTextureSize ELSE width,
      IF height > maxTextureSize THEN maxTextureSize ELSE height>>

\* width and height of the texture: lines 311-323.
TextureSize(width, height) ==
    IF NeedsDownsample(width, height)
    THEN LET factor == DownsampleFactor(width, height)
         IN  <<DoubleFloor(DoubleTimes(width, factor)),
               DoubleFloor(DoubleTimes(height, factor))>>
    ELSE <<width, height>>

\* Which band feeds each channel: G and B fall back to band 0, A to 255.
Channels(bands) ==
    [r |-> 0,
     g |-> IF bands > 1 THEN 1 ELSE 0,
     b |-> IF bands > 2 THEN 2 ELSE 0,
     a |-> IF bands > 3 THEN 3 ELSE 255]

OrthoParse(rs) ==
    LET wh == TextureSize(rs.width, rs.height)
        size == wh[1] * wh[2]
    IN  [width |-> wh[1], height |-> wh[2],
         dataLength |-> 4 * size,
         resampled |-> NeedsDownsample(rs.width, rs.height),
         channels |-> Channels(rs.bands)]

-----------------------------------------------------------------------------
(* The DEM inputs *)

MaxAffixLen == 1
MaxZone == 12
MaxRasterSide == 2

AffixChars == {" ", "N", "7", "\n"}

RECURSIVE SeqsUpTo(_, _)
SeqsUpTo(cs, n) ==
    IF n = 0 THEN {<<>>}
    ELSE LET shorter == SeqsUpTo(cs, n - 1)
         IN  shorter \cup {Append(s, c) : s \in shorter, c \in cs}

Affixes == SeqsUpTo(AffixChars, MaxAffixLen)
                \cup {<<"W", "G", "S", " ">>, UTMZONE \o <<"5", "S", " ">>}

HemisphereLetters == {"N", "S"}

\* A citation of the form <prefix>UTM zone <number><letter><suffix>, a text
\* without a zone, or no GTCitationGeoKey at all.
Citations ==
    [form : {"utm"}, prefix : Affixes, number : 1..MaxZone,
     letter : HemisphereLetters, suffix : Affixes]
    \cup [form : {"text"}, text : Affixes]
    \cup {[form |-> "absent"]}

CitationText(c) ==
    IF c.form = "utm"
    THEN c.prefix \o UTMZONE \o DecimalText(c.number) \o <<c.letter>> \o c.suffix
    ELSE c.text

GeoKeys(c) ==
    IF c.form = "absent" THEN <<>>
    ELSE [k \in {"GTCitationGeoKey"} |-> CitationText(c)]

Tiepoints == {<<0, 0, 0, 100, 200, 0>>, <<0, 0, 0, 7, 8, 9>>}
PixelScales == {<<1, 1, 0>>, <<2, 3, 0>>}

FileDirectories ==
    {[k \in keys |-> IF k = "ModelTiepoint" THEN t ELSE s] :
        keys \in SUBSET {"ModelTiepoint", "ModelPixelScale"},
        t \in Tiepoints, s \in PixelScales}

Images(c) ==
    [fileDirectory : FileDirectories, geoKeys : {GeoKeys(c)},
     width : 1..MaxRasterSide, height : 1..MaxRasterSide]

NotParsed == [status |-> "none"]

DEMIdle ==
    /\ citation = [form |-> "absent"]
    /\ image = [fileDirectory |-> <<>>, geoKeys |-> <<>>, width |-> 1, height |-> 1]
    /\ demResult = NotParsed

IdentityMatrix == [identity |-> TRUE]

\* The texture stamp fields of a new terrain material.
DefaultMaterial ==
    [textureStampMap |-> NoTexture,
     defines |-> <<>>,
     textureStampFrameInverse |-> IdentityMatrix]

Ids == {"dem.tif", "ortho.tif"}

LoadIdle ==
    /\ path = "dem.tif" /\ options = <<>> /\ pc = "idle"
    /\ started = [id \in Ids |-> 0] /\ ended = [id \in Ids |-> 0]
    /\ promise = [state |-> "none"] /\ chain = "none"
    /\ demFetch = "none" /\ orthoFetch = "none"
    /\ material = DefaultMaterial

OrthoIdle ==
    /\ raster = [width |-> 1, height |-> 1, bands |-> 1]
    /\ texture = NoTexture

NotCalled == [called |-> FALSE]

GeoIdle ==
    /\ scene = <<>>
    /\ geoCall = [worldPoint2 |-> <<0, 0, 0>>, terrain |-> 0]
    /\ geoResult = NotCalled

NoRect == [none |-> TRUE]
NoTask == [none |-> TRUE]

ViewIdle ==
    /\ phase = "none" /\ propsViewer = 0 /\ viewers = <<>>
    /\ containerSize = <<0, 0>> /\ containerChildren = {}
    /\ lastContentRect = NoRect /\ observing = FALSE
    /\ windowListeners = {} /\ boundCount = 0 /\ resizeTask = NoTask
    /\ events = 0 /\ devicePixelRatio = 1

AffineIdle ==
    /\ affineCall = [a2 |-> 0, b2 |-> 0, M |-> <<>>, roundToInt |-> FALSE]
    /\ affineResult = NotCalled

InitDEM ==
    /\ citation \in Citations
    /\ image \in Images(citation)
    /\ demResult = NotParsed
    /\ LoadIdle
    /\ OrthoIdle
    /\ GeoIdle
    /\ ViewIdle
    /\ AffineIdle

\* await reader.parse(arrayBuffer)
ParseDEM ==
    /\ demResult = NotParsed
    /\ demResult' = DEMParse(image)
    /\ UNCHANGED <<citation, image, outsideDEM>>

NextDEM == ParseDEM

SpecDEM == InitDEM /\ [][NextDEM]_vars

-----------------------------------------------------------------------------
(* Claims about GeoTiffDEMFileReader.parse *)

\* C5: for a citation of the form <any text>UTM zone <number><letter><any
\* text>, the parse stores utmZoneNumber = <number> and utmZoneLetter = exactly
\* the one hemisphere letter, whatever text follows the letter.
C5_ZoneNumberAndSingleLetter ==
    (citation.form = "utm" /\ demResult.status = "ok") =>
        /\ demResult.terrain.geoCoords.dem.utmZoneNumber = Num(citation.number)
        /\ demResult.terrain.geoCoords.dem.utmZoneLetter = <<citation.letter>>

\* C6: the tiepoint is optional: without ModelTiepoint (the other metadata
\* present) the parse completes with the terrain at its default position, and
\* with ModelTiepoint the position is its elements 3, 4 and 5.
C6_TiepointOptional ==
    (/\ demResult # NotParsed
     /\ Has(image.fileDirectory, "ModelPixelScale")
     /\ Has(image.geoKeys, "GTCitationGeoKey")) =>
        /\ demResult.status = "ok"
        /\ demResult.terrain.position =
             IF Has(image.fileDirectory, "ModelTiepoint")
             THEN <<image.fileDirectory.ModelTiepoint[4],
                    image.fileDirectory.ModelTiepoint[5],
                    image.fileDirectory.ModelTiepoint[6]>>
             ELSE DefaultPosition

-----------------------------------------------------------------------------
(* The orthophoto inputs *)

MaxOver == 145
SmallSide == 2
MaxBands == 4

\* Raster sides: the small ones, those around maxTextureSize, and a few large.
FewSides == (1..SmallSide) \cup {1000, maxTextureSize, 5000, 10000}
AllSides == FewSides \cup ((maxTextureSize - 1)..(maxTextureSize + MaxOver))

RasterSizes ==
    (AllSides \X FewSides) \cup (FewSides \X AllSides)
        \cup {<<d, d>> : d \in AllSides}

InitOrtho ==
    /\ \E wh \in RasterSizes, n \in 1..MaxBands :
          raster = [width |-> wh[1], height |-> wh[2], bands |-> n]
    /\ texture = NoTexture
    /\ DEMIdle
    /\ LoadIdle
    /\ GeoIdle
    /\ ViewIdle
    /\ AffineIdle

\* await reader.parse(arrayBuffer)
ParseOrtho ==
    /\ texture = NoTexture
    /\ texture' = OrthoParse(raster)
    /\ UNCHANGED <<raster, outsideOrtho>>

NextOrtho == ParseOrtho

SpecOrtho == InitOrtho /\ [][NextOrtho]_vars

Larger(a, b) == IF a > b THEN a ELSE b
Smaller(a, b) == IF a > b THEN b ELSE a

\* C7 as stated: a raster within 4096 x 4096 keeps its size; otherwise the
\* larger side becomes 4096, the other floor(other * 4096 / larger), and
\* neither exceeds 4096.
C7_LargerSideBecomesMax ==
    texture # NoTexture =>
        IF raster.width <= maxTextureSize /\ raster.height <= maxTextureSize
        THEN texture.width = raster.width /\ texture.height = raster.height
        ELSE /\ Larger(texture.width, texture.height) = maxTextureSize
             /\ Smaller(texture.width, texture.height) =
                  (Smaller(raster.width, raster.height) * maxTextureSize)
                      \div Larger(raster.width, raster.height)
             /\ texture.width <= maxTextureSize
             /\ texture.height <= maxTextureSize

\* C7 amended: the factor 4096 / larger and the two products are rounded to
\* doubles before flooring, so the larger side becomes 4096 or 4095 and the
\* other side floor(other * 4096 / larger) or, when that quotient is exact, one
\* less; the larger side stays the larger, 5000 x 1000 gives 4096 x 819, and
\* neither side exceeds 4096.
C7_SidesWithinOneOfExact ==
    texture # NoTexture =>
        IF raster.width <= maxTextureSize /\ raster.height <= maxTextureSize
        THEN texture.width = raster.width /\ texture.height = raster.height
        ELSE LET big == Larger(raster.width, raster.height)
                 small == Smaller(raster.width, raster.height)
                 exact == (small * maxTextureSize) \div big
                 tbig == IF raster.width > raster.height
                         THEN texture.width ELSE texture.height
                 tsmall == IF raster.width > raster.height
                           THEN texture.height ELSE texture.width
             IN  /\ tbig \in {maxTextureSize - 1, maxTextureSize}
                 /\ tsmall \in {exact - 1, exact}
                 /\ tsmall = exact - 1 => (small * maxTextureSize) % big = 0
                 /\ tsmall <= tbig
                 /\ (raster.width = 5000 /\ raster.height = 1000) =>
                        (texture.width = 4096 /\ texture.height = 819)
                 /\ texture.width <= maxTextureSize
                 /\ texture.height <= maxTextureSize

C7_Witness ==
    /\ texture # NoTexture
    /\ raster.width = 5000 /\ raster.height = 1000
    /\ texture.width = 4096 /\ texture.height = 819

\* C11: for every raster with width >= 1 and height >= 1 the texture parse
\* makes has width >= 1 and height >= 1, and its RGBA buffer holds exactly
\* 4 * width * height bytes.
C11_TextureSidesPositive ==
    (texture # NoTexture /\ raster.width >= 1 /\ raster.height >= 1) =>
        /\ texture.width >= 1
        /\ texture.height >= 1
        /\ texture.dataLength = 4 * texture.width * texture.height

-----------------------------------------------------------------------------
(* loadGeoTiff *)

\* if (options.orthophotoPath): a missing path and the empty string are falsy.
OrthoRequested(opts) ==
    Has(opts, "orthophotoPath") /\ opts.orthophotoPath # ""

\* manager.itemStart(id), manager.itemEnd(id)
ItemStart(counts, id) == [counts EXCEPT ![id] = @ + 1]
ItemEnd(counts, id) == [counts EXCEPT ![id] = @ + 1]

\* obj.width(), obj.height(): the extent of the bounds set by setBounds.
TerrainWidth(terrain) == (terrain.bounds2[3] - terrain.bounds2[1]) \div 2
TerrainHeight(terrain) == (terrain.bounds2[4] - terrain.bounds2[2]) \div 2

\* The mutant assigns the texture and the matrix but enables no define.
StampWithoutDefines(mat, tex, terrain) ==
    [mat EXCEPT !.textureStampMap = tex,
                !.textureStampFrameInverse =
                    [inverseOf |->
                        [position2 |-> <<-TerrainWidth(terrain),
                                         -TerrainHeight(terrain), 0>>,
                         scale |-> <<TerrainWidth(terrain),
                                     TerrainHeight(terrain), 1>>]]]

\* Lines 133-167: the texture, the two defines, and the inverse of
\* compose((-width/2, -height/2, 0), no rotation, (width, height, 1)).
StampMaterial(mat, tex, terrain) ==
    [textureStampMap |-> tex,
     defines |->
        [k \in DOMAIN mat.defines \cup
                 {"ENABLE_TEXTURE_STAMP",
                  "ENABLE_TEXTURE_STAMP_USE_MODEL_COORDINATES"} |-> 1],
     textureStampFrameInverse |->
        [inverseOf |->
            [position2 |-> <<-TerrainWidth(terrain), -TerrainHeight(terrain), 0>>,
             scale |-> <<TerrainWidth(terrain), TerrainHeight(terrain), 1>>]]]

\* The load of either reader rejected: the fetch or decode failed, or parse threw.
LoadFailed ==
    \/ demFetch = "fail"
    \/ demResult.status = "throw"
    \/ orthoFetch = "fail"

LoadOptions == {<<>>} \cup {[orthophotoPath |-> p] : p \in Ids \cup {""}}

LoadCitations ==
    {c \in Citations :
        \/ c.form = "absent"
        \/ /\ c.form = "utm" /\ c.prefix = <<>> /\ c.suffix = <<>>
           /\ c.number = 1 /\ c.letter = "N"}

LoadRasters ==
    {[width |-> 5000, height |-> 1000, bands |-> 3],
     [width |-> 1, height |-> 1, bands |-> 1]}

InitLoad ==
    /\ path \in Ids
    /\ options \in LoadOptions
    /\ citation \in LoadCitations
    /\ image \in {i \in Images(citation) :
                    i.width = MaxRasterSide /\ i.height = MaxRasterSide}
    /\ raster \in LoadRasters
    /\ demResult = NotParsed
    /\ texture = NoTexture
    /\ pc = "idle"
    /\ started = [id \in Ids |-> 0] /\ ended = [id \in Ids |-> 0]
    /\ promise = [state |-> "none"] /\ chain = "none"
    /\ demFetch = "none" /\ orthoFetch = "none"
    /\ material = DefaultMaterial
    /\ GeoIdle
    /\ ViewIdle
    /\ AffineIdle

\* The executor of the returned promise runs synchronously: lines 119-123.
LoadGeoTiff ==
    /\ pc = "idle"
    /\ started' = ItemStart(started, path)
    /\ promise' = [state |-> "pending"]
    /\ chain' = "pending"
    /\ demFetch' = "inflight"
    /\ pc' = "demLoading"
    /\ UNCHANGED <<path, options, ended, orthoFetch, material, demVars, orthoVars, outsideLoad>>

\* gtReader.load rejects: the fetch or the decode failed; .then is skipped.
DemFetchFails ==
    /\ pc = "demLoading"
    /\ demFetch' = "fail"
    /\ pc' = "outerFinally"
    /\ UNCHANGED <<path, options, started, ended, promise, chain, orthoFetch,
                   material, demVars, orthoVars, outsideLoad>>

\* The fetch succeeded and parse ran; a throw in parse rejects the load.
DemFetchParses ==
    /\ pc = "demLoading"
    /\ demFetch' = "ok"
    /\ demResult' = DEMParse(image)
    /\ pc' = IF DEMParse(image).status = "ok" THEN "then" ELSE "outerFinally"
    /\ UNCHANGED <<path, options, started, ended, promise, chain, orthoFetch,
                   material, citation, image, orthoVars, outsideLoad>>

\* The .then callback up to its await (lines 124-131), or to resolve(obj).
ThenCallback ==
    /\ pc = "then"
    /\ IF OrthoRequested(options)
       THEN /\ started' = ItemStart(started, options.orthophotoPath)
            /\ orthoFetch' = "inflight"
            /\ pc' = "orthoLoading"
            /\ UNCHANGED promise
       ELSE /\ promise' = [state |-> "resolved", value |-> demResult.terrain]
            /\ pc' = "outerFinally"
            /\ UNCHANGED <<started, orthoFetch>>
    /\ UNCHANGED <<path, options, ended, chain, demFetch, material, demVars,
                   orthoVars, outsideLoad>>

\* reader.load settles: the orthophoto was fetched and parsed, or it failed.
OrthoLoadSettles ==
    /\ pc = "orthoLoading"
    /\ \/ /\ orthoFetch' = "ok"
          /\ texture' = OrthoParse(raster)
       \/ /\ orthoFetch' = "fail"
          /\ UNCHANGED texture
    /\ pc' = "innerFinally"
    /\ UNCHANGED <<path, options, started, ended, promise, chain, demFetch,
                   material, demVars, raster, outsideLoad>>

\* Line 131: .finally(() => manager.itemEnd(path)) on the orthophoto load.
InnerFinally ==
    /\ pc = "innerFinally"
    /\ ended' = ItemEnd(ended, path)
    /\ pc' = "afterAwait"
    /\ UNCHANGED <<path, options, started, promise, chain, demFetch, orthoFetch,
                   material, demVars, orthoVars, outsideLoad>>

\* The callback resumes after the await: lines 133-169, or the rejection is
\* rethrown and the callback's promise rejects.
AfterAwait ==
    /\ pc = "afterAwait"
    /\ IF orthoFetch = "ok"
       THEN /\ material' = StampMaterial(material, texture, demResult.terrain)
            /\ promise' = [state |-> "resolved", value |-> demResult.terrain]
       ELSE UNCHANGED <<material, promise>>
    /\ pc' = "outerFinally"
    /\ UNCHANGED <<path, options, started, ended, chain, demFetch, orthoFetch,
                   demVars, orthoVars, outsideLoad>>

\* Line 171: .finally(() => manager.itemEnd(path)); the chain then settles, and
\* nothing handles its rejection: the executor was given no reject.
OuterFinally ==
    /\ pc = "outerFinally"
    /\ ended' = ItemEnd(ended, path)
    /\ chain' = IF LoadFailed THEN "rejected" ELSE "fulfilled"
    /\ pc' = "done"
    /\ UNCHANGED <<path, options, started, promise, demFetch, orthoFetch,
                   material, demVars, orthoVars, outsideLoad>>

Next ==
    \/ LoadGeoTiff
    \/ DemFetchFails
    \/ DemFetchParses
    \/ ThenCallback
    \/ OrthoLoadSettles
    \/ InnerFinally
    \/ AfterAwait
    \/ OuterFinally

Init == InitLoad

Spec == Init /\ [][Next]_vars

-----------------------------------------------------------------------------
(* Claims about loadGeoTiff *)

\* C1: every itemStart(id) is followed by exactly one itemEnd(id) of the same
\* id: no id is ended more often than it was started, and when the load is
\* over no id is left started.
C1_StartsAndEndsPaired ==
    /\ \A id \in Ids : ended[id] <= started[id]
    /\ pc = "done" => \A id \in Ids : ended[id] = started[id]

\* C2: when the terrain load or the orthophoto load fails, the promise
\* loadGeoTiff returned is rejected once the chain has run to its end: it is
\* neither resolved nor left pending.
C2_FailureRejectsPromise ==
    (pc = "done" /\ LoadFailed) => promise.state = "rejected"

\* C3: the orthophoto fetch starts only after the terrain load succeeded; with
\* an orthophotoPath the promise resolves with the terrain only once the
\* texture is the material's textureStampMap, both stamp defines are enabled
\* and textureStampFrameInverse is set; without one it resolves with the
\* terrain and the stamp fields of the material are untouched.
C3_ResolveAfterStamp ==
    /\ orthoFetch # "none" =>
          /\ OrthoRequested(options)
          /\ demFetch = "ok" /\ demResult.status = "ok"
    /\ promise.state = "resolved" =>
          /\ demResult.status = "ok"
          /\ promise.value = demResult.terrain
          /\ IF OrthoRequested(options)
             THEN /\ orthoFetch = "ok"
                  /\ texture # NoTexture
                  /\ material.textureStampMap = texture
                  /\ Has(material.defines, "ENABLE_TEXTURE_STAMP")
                  /\ material.defines.ENABLE_TEXTURE_STAMP = 1
                  /\ Has(material.defines,
                         "ENABLE_TEXTURE_STAMP_USE_MODEL_COORDINATES")
                  /\ material.defines.ENABLE_TEXTURE_STAMP_USE_MODEL_COORDINATES = 1
                  /\ material.textureStampFrameInverse # IdentityMatrix
             ELSE material = DefaultMaterial /\ orthoFetch = "none"

C3_Witness ==
    /\ promise.state = "resolved"
    /\ OrthoRequested(options)
    /\ material.textureStampMap = texture

-----------------------------------------------------------------------------
(* getGeoCoords *)
(* Coordinates are held doubled (x2 = 2 * x), so that width / 2 is exact.    *)

Null == [null |-> TRUE]

\* Numbers of 32 bits and more are held wide: [hi, lo] stands for
\* hi * WideBase + lo, with lo in 0..(WideBase - 1) and hi of either sign.
\* All the values here are integers or halves far below 2^53, where the
\* JavaScript operators + and * are exact.
WideBase == 2^16

WideNormal(hi, lo) == [hi |-> hi + (lo \div WideBase), lo |-> lo % WideBase]

Wide(n) == WideNormal(0, n)

WidePlus(x, y) == WideNormal(x.hi + y.hi, x.lo + y.lo)

\* x * k for a small integer k.
WideTimes(x, k) == WideNormal(x.hi * k, x.lo * k)

\* The integer part of a doubled value, doubled: the fraction is dropped,
\* towards zero.
TruncateDoubled(v2) ==
    IF v2.hi < 0 THEN WideNormal(v2.hi, v2.lo + (v2.lo % 2))
    ELSE WideNormal(v2.hi, v2.lo - (v2.lo % 2))

\* v | 0 is ToInt32(v): the integer part of v modulo 2^32, taken in
\* -2^31..(2^31 - 1).  On doubled values the modulus is 2^33 = 2 * WideBase^2.
ToInt32Doubled(v2) ==
    LET t2 == TruncateDoubled(v2)
        h == t2.hi % (2 * WideBase)
    IN  [hi |-> IF h >= WideBase THEN h - 2 * WideBase ELSE h, lo |-> t2.lo]

\* affineTransform(a, b, M, roundToInt) on doubled a and b, small integers,
\* and wide coefficients M; the result is doubled and wide.
AffineTransform(a2, b2, M, roundToInt) ==
    LET round(v2) == IF roundToInt THEN ToInt32Doubled(v2) ELSE v2
        row(k) == WidePlus(WideTimes(M[k], 2),
                           WidePlus(WideTimes(M[k + 1], a2),
                                    WideTimes(M[k + 2], b2)))
    IN  <<round(row(1)), round(row(4))>>

\* FrameTransformer.transformPoint(identity, terrain.matrixWorld, p): the world
\* point in the frame of the terrain, whose matrixWorld here is a translation.
TransformPointToFrame(origin2, worldPoint2) ==
    <<worldPoint2[1] - origin2[1],
      worldPoint2[2] - origin2[2],
      worldPoint2[3] - origin2[3]>>

\* utm.convertUtmToLatLng(easting, northing, zoneNumber, zoneLetter) of the
\* utm-latlng library: a function of its four arguments.
ConvertUtmToLatLng(easting2, northing2, zoneNumber, zoneLetter) ==
    [lat |-> <<"lat", easting2, northing2, zoneNumber, zoneLetter>>,
     lng |-> <<"lng", easting2, northing2, zoneNumber, zoneLetter>>]

\* A value of userData.geoCoords that is not falsy.
Truthy(node, sc) ==
    /\ node # 0
    /\ Has(sc[node].userData, "geoCoords")
    /\ sc[node].userData.geoCoords # Null

\* The mutant walks up to the first ancestor that carries metadata.
RECURSIVE GeoCoordsDataOfAncestors(_, _)
GeoCoordsDataOfAncestors(terrain, sc) ==
    IF terrain = 0 THEN Undefined
    ELSE IF Truthy(terrain, sc) THEN sc[terrain].userData.geoCoords
    ELSE GeoCoordsDataOfAncestors(sc[terrain].parent, sc)

\* terrain?.userData.geoCoords || terrain?.parent?.userData.geoCoords
GeoCoordsData(terrain, sc) ==
    IF terrain = 0 THEN Undefined
    ELSE IF Truthy(terrain, sc) THEN sc[terrain].userData.geoCoords
    ELSE IF sc[terrain].parent = 0 THEN Undefined
    ELSE IF Has(sc[sc[terrain].parent].userData, "geoCoords")
    THEN sc[sc[terrain].parent].userData.geoCoords
    ELSE Undefined

\* Lines 60-81, for the metadata found.
GeoCoordsFrom(geoCoordsData, worldPoint2, origin2) ==
    LET tempVec2 == TransformPointToFrame(origin2, worldPoint2)
        demX2 == tempVec2[1] + geoCoordsData.dem.width
        demY2 == tempVec2[2] + geoCoordsData.dem.height
        pixelToGPS == [k \in 1..6 |-> Wide(geoCoordsData.dem.pixelToGPS[k])]
        wgs84 == AffineTransform(demX2, demY2, pixelToGPS, FALSE)
        latLng == ConvertUtmToLatLng(wgs84[1], wgs84[2],
                                     geoCoordsData.dem.utmZoneNumber,
                                     geoCoordsData.dem.utmZoneLetter)
    IN  [lat |-> latLng.lat, lon |-> latLng.lng, elevation2 |-> -tempVec2[3]]

GetGeoCoords(worldPoint2, terrain, sc) ==
    LET geoCoordsData == GeoCoordsData(terrain, sc)
    IN  IF geoCoordsData \in {Undefined, Null} THEN Null
        ELSE GeoCoordsFrom(geoCoordsData, worldPoint2, sc[terrain].origin2)

MaxNodes == 3

Nodes == 1..MaxNodes

\* The metadata two DEM parses left on their terrains.
GeoDatas ==
    {DEMParse([fileDirectory |->
                  [ModelTiepoint |-> <<0, 0, 0, 100, 200, 0>>,
                   ModelPixelScale |-> <<1, 1, 0>>],
               geoKeys |-> [GTCitationGeoKey |->
                               UTMZONE \o DecimalText(n) \o <<"N">>],
               width |-> n, height |-> MaxRasterSide]).terrain.geoCoords :
        n \in 1..2}

UserDatas == {<<>>, [geoCoords |-> Null]} \cup {[geoCoords |-> g] : g \in GeoDatas}

\* Node n is the child of node n + 1, or a root; 0 stands for no object.
Scenes ==
    {sc \in [Nodes -> [parent : 0..MaxNodes, userData : UserDatas,
                       origin2 : {<<2 * n, 0, 0>> : n \in Nodes}]] :
        \A n \in Nodes : /\ sc[n].parent \in {0, n + 1} \ {MaxNodes + 1}
                         /\ sc[n].origin2 = <<2 * n, 0, 0>>}

WorldPoints == {<<0, 0, 0>>, <<2, -4, 6>>}

InitGeo ==
    /\ scene \in Scenes
    /\ geoCall \in [worldPoint2 : WorldPoints, terrain : 0..MaxNodes]
    /\ geoResult = NotCalled
    /\ DEMIdle /\ LoadIdle /\ OrthoIdle /\ ViewIdle /\ AffineIdle

CallGetGeoCoords ==
    /\ geoResult = NotCalled
    /\ geoResult' = GetGeoCoords(geoCall.worldPoint2, geoCall.terrain, scene)
    /\ UNCHANGED <<scene, geoCall, outsideGeo>>

NextGeo == CallGetGeoCoords

SpecGeo == InitGeo /\ [][NextGeo]_vars

OwnData(sc, t) == t # 0 /\ Truthy(t, sc)
ParentData(sc, t) == t # 0 /\ sc[t].parent # 0 /\ Truthy(sc[t].parent, sc)

\* C4: getGeoCoords returns null exactly when neither the terrain nor its
\* immediate parent carries userData.geoCoords; the terrain's own metadata is
\* used before the parent's, and that of a higher ancestor never.
C4_NullIffNoOwnOrParentData ==
    geoResult # NotCalled =>
        LET t == geoCall.terrain
        IN  /\ geoResult = Null <=> ~OwnData(scene, t) /\ ~ParentData(scene, t)
            /\ OwnData(scene, t) =>
                  geoResult = GeoCoordsFrom(scene[t].userData.geoCoords,
                                            geoCall.worldPoint2, scene[t].origin2)
            /\ (~OwnData(scene, t) /\ ParentData(scene, t)) =>
                  geoResult = GeoCoordsFrom(scene[scene[t].parent].userData.geoCoords,
                                            geoCall.worldPoint2, scene[t].origin2)

\* The parent's metadata was used although a higher ancestor carries other.
C4_Witness ==
    /\ geoResult # NotCalled /\ geoResult # Null
    /\ ~OwnData(scene, geoCall.terrain)
    /\ ParentData(scene, geoCall.terrain)
    /\ scene[scene[geoCall.terrain].parent].parent # 0
    /\ OwnData(scene, scene[scene[geoCall.terrain].parent].parent)
    /\ scene[scene[scene[geoCall.terrain].parent].parent].userData
          # scene[scene[geoCall.terrain].parent].userData

-----------------------------------------------------------------------------
(* affineTransform *)

MaxCoord == 2

\* Doubled pixel coordinates: integers and halves of either sign.
Coords == (-MaxCoord)..MaxCoord

\* Coefficients: small ones, and ones around 2^31 and 2^32.
Coefficients ==
    {Wide(0), Wide(1), Wide(-3),
     [hi |-> WideBase \div 2, lo |-> 0],
     [hi |-> -(WideBase \div 2), lo |-> WideBase - 1],
     [hi |-> WideBase, lo |-> 5]}

CoefficientRows ==
    {<<Wide(0), Wide(1), Wide(0)>>,
     <<Wide(7), Wide(0), Wide(-1)>>,
     <<[hi |-> WideBase \div 2, lo |-> 0], Wide(0), Wide(0)>>}

InitAffine ==
    /\ affineCall \in
          [a2 : Coords, b2 : Coords,
           M : {first \o second :
                    first \in [1..3 -> Coefficients], second \in CoefficientRows},
           roundToInt : BOOLEAN]
    /\ affineResult = NotCalled
    /\ DEMIdle /\ LoadIdle /\ OrthoIdle /\ GeoIdle /\ ViewIdle

CallAffineTransform ==
    /\ affineResult = NotCalled
    /\ affineResult' = AffineTransform(affineCall.a2, affineCall.b2,
                                       affineCall.M, affineCall.roundToInt)
    /\ UNCHANGED <<affineCall, outsideAffine>>

NextAffine == CallAffineTransform

SpecAffine == InitAffine /\ [][NextAffine]_vars

\* c0 + c1 * a + c2 * b for the row of M that starts at k, doubled.
ExactRow(k) ==
    WidePlus(WideTimes(affineCall.M[k], 2),
             WidePlus(WideTimes(affineCall.M[k + 1], affineCall.a2),
                      WideTimes(affineCall.M[k + 2], affineCall.b2)))

\* C12: affineTransform(a, b, M) returns (c0 + c1*a + c2*b, c3 + c4*a + c5*b),
\* and with roundToInt each component is that value with its fraction
\* dropped towards zero, whatever its magnitude: never wrapped.
C12_ExactOrTruncated ==
    affineResult # NotCalled =>
        IF affineCall.roundToInt
        THEN affineResult = <<TruncateDoubled(ExactRow(1)),
                              TruncateDoubled(ExactRow(4))>>
        ELSE affineResult = <<ExactRow(1), ExactRow(4)>>

-----------------------------------------------------------------------------
(* ViewerContainer *)

\* The viewers a parent may pass as props.viewer, the content rects, and how
\* many resize events and prop changes a behaviour holds.
MaxViewers == 2
MaxRect == 2
MaxEvents == 3

ViewerIds == 1..MaxViewers

\* The content rects and container sizes of the model.
Rects == {[width |-> k, height |-> k + 1] : k \in 1..MaxRect}

\* A viewer nobody sized yet; the odd viewers are optimized viewers.
NewViewer(v) ==
    [size |-> NoRect, pixelRatio |-> 0, style |-> NoRect,
     restarted |-> FALSE, isOptimizedViewer |-> v % 2 = 1]

\* viewer.setSize(width, height)
SetSize(vs, v, rect) ==
    [vs EXCEPT ![v].size = [width |-> rect.width, height |-> rect.height]]

\* viewer.setPixelRatio(window.devicePixelRatio)
SetPixelRatio(vs, v, ratio) == [vs EXCEPT ![v].pixelRatio = ratio]

\* if (viewer.isOptimizedViewer) viewer.optimizer.restart();
RestartOptimizer(vs, v) ==
    IF vs[v].isOptimizedViewer THEN [vs EXCEPT ![v].restarted = TRUE] ELSE vs

\* Lines 45-49: the canvas takes the size of the content rect at once.
SetCanvasStyle(vs, v, contentRect) ==
    IF contentRect # NoRect
    THEN [vs EXCEPT ![v].style =
            [width |-> contentRect.width, height |-> contentRect.height]]
    ELSE vs

\* The closure given to debouncer.run: it holds viewer, and contentRect of the
\* enclosing call, which its own const contentRect shadows.
ResizeClosure(v, contentRect) == [viewer |-> v, scheduledRect |-> contentRect]

\* The mutant reads the content rect of the call that scheduled the task.
ScheduledContentRect(task, last) == task.scheduledRect

\* Line 52: const contentRect = this.lastContentRect, read when the task runs.
TaskContentRect(task, last) == last

\* Debouncer.run(key, task): one pending task per key.  Whether a second run
\* before the task ran keeps the first closure or takes the new one is the
\* debouncer's choice: both are possible here.
DebouncerRun(pending, task) ==
    IF pending = NoTask THEN {task} ELSE {pending, task}

\* The resize task of lines 51-61.
ResizeTaskEffect(vs, task, last, ratio) ==
    LET v == task.viewer
        contentRect == TaskContentRect(task, last)
        sized == IF contentRect # NoRect
                 THEN SetSize(SetPixelRatio(vs, v, ratio), v, contentRect)
                 ELSE SetPixelRatio(vs, v, ratio)
    IN  RestartOptimizer(sized, v)

\* updateSize(): the part that runs at once.
UpdateSize ==
    /\ viewers' = SetCanvasStyle(viewers, propsViewer, lastContentRect')
    /\ resizeTask' \in
          DebouncerRun(resizeTask, ResizeClosure(propsViewer, lastContentRect'))

\* The mutant appends the new element and leaves the previous one in place.
KeepPreviousChild(children, prevViewer, viewer) == children \cup {viewer}

\* prevViewer.domElement.remove(); container.appendChild(viewer.domElement);
SwapChild(children, prevViewer, viewer) ==
    (children \ {prevViewer}) \cup {viewer}

InitView ==
    /\ phase = "constructed"
    /\ propsViewer \in ViewerIds
    /\ viewers = [v \in ViewerIds |-> NewViewer(v)]
    /\ containerSize \in Rects
    /\ containerChildren = {}
    /\ lastContentRect = NoRect
    /\ observing = FALSE
    /\ windowListeners = {}
    /\ boundCount = 0
    /\ resizeTask = NoTask
    /\ events = 0
    /\ devicePixelRatio \in {1, 2}
    /\ DEMIdle /\ LoadIdle /\ OrthoIdle /\ GeoIdle /\ AffineIdle

\* componentDidMount(): lines 68-82.  bind() makes a new function each time.
ComponentDidMount ==
    /\ phase = "constructed"
    /\ phase' = "mounted"
    /\ containerChildren' = containerChildren \cup {propsViewer}
    /\ observing' = TRUE
    /\ viewers' = SetPixelRatio(SetSize(viewers, propsViewer, containerSize),
                                propsViewer, devicePixelRatio)
    /\ boundCount' = boundCount + 1
    /\ windowListeners' = windowListeners \cup {boundCount + 1}
    /\ UNCHANGED <<propsViewer, containerSize, lastContentRect, resizeTask,
                   events, devicePixelRatio, outsideView>>

\* The ResizeObserver callback of lines 29-32, for a container now of size rect.
ResizeObserverCallback(rect) ==
    /\ observing
    /\ events < MaxEvents
    /\ events' = events + 1
    /\ containerSize' = rect
    /\ lastContentRect' = rect
    /\ UpdateSize
    /\ UNCHANGED <<phase, propsViewer, containerChildren, observing,
                   windowListeners, boundCount, devicePixelRatio, outsideView>>

\* A 'resize' event of window, which a change of the pixel ratio raises too:
\* every listener still registered runs updateSize.
WindowResize(ratio) ==
    /\ phase # "constructed"
    /\ events < MaxEvents
    /\ events' = events + 1
    /\ devicePixelRatio' = ratio
    /\ UNCHANGED lastContentRect
    /\ IF windowListeners # {}
       THEN UpdateSize
       ELSE UNCHANGED <<viewers, resizeTask>>
    /\ UNCHANGED <<phase, propsViewer, containerSize, containerChildren,
                   observing, windowListeners, boundCount, outsideView>>

\* The debouncer runs the pending 'resize' task.
RunResizeTask ==
    /\ resizeTask # NoTask
    /\ viewers' = ResizeTaskEffect(viewers, resizeTask, lastContentRect,
                                   devicePixelRatio)
    /\ resizeTask' = NoTask
    /\ UNCHANGED <<phase, propsViewer, containerSize, containerChildren,
                   lastContentRect, observing, windowListeners, boundCount,
                   events, devicePixelRatio, outsideView>>

\* React commits props with viewer v and calls componentDidUpdate(prevProps):
\* lines 84-104.
ComponentDidUpdate(v) ==
    /\ phase = "mounted"
    /\ events < MaxEvents
    /\ events' = events + 1
    /\ propsViewer' = v
    /\ IF propsViewer # v
       THEN /\ containerChildren' = SwapChild(containerChildren, propsViewer, v)
            /\ viewers' = IF lastContentRect # NoRect
                          THEN RestartOptimizer(
                                   SetSize(viewers, v, lastContentRect), v)
                          ELSE viewers
       ELSE UNCHANGED <<containerChildren, viewers>>
    /\ UNCHANGED <<phase, containerSize, lastContentRect, observing,
                   windowListeners, boundCount, resizeTask, devicePixelRatio,
                   outsideView>>

\* componentWillUnmount(): lines 106-109.  removeEventListener is given a
\* function bind() has just made, which was never registered.
ComponentWillUnmount ==
    /\ phase = "mounted"
    /\ phase' = "unmounted"
    /\ observing' = FALSE
    /\ boundCount' = boundCount + 1
    /\ windowListeners' = windowListeners \ {boundCount + 1}
    /\ UNCHANGED <<propsViewer, viewers, containerSize, containerChildren,
                   lastContentRect, resizeTask, events, devicePixelRatio,
                   outsideView>>

NextView ==
    \/ ComponentDidMount
    \/ \E rect \in Rects : ResizeObserverCallback(rect)
    \/ \E ratio \in {1, 2} : WindowResize(ratio)
    \/ RunResizeTask
    \/ \E v \in ViewerIds : ComponentDidUpdate(v)
    \/ ComponentWillUnmount

SpecView == InitView /\ [][NextView]_vars

\* The debouncer runs a scheduled task after its delay.
SpecViewFair == SpecView /\ WF_vars(RunResizeTask)

-----------------------------------------------------------------------------
(* Claims about ViewerContainer *)

\* A resize notification: the ResizeObserver callback, or a window 'resize'
\* event that reaches a registered listener.
ResizeNotification ==
    \/ \E rect \in Rects : ResizeObserverCallback(rect)
    \/ windowListeners # {} /\ \E ratio \in {1, 2} : WindowResize(ratio)

C9_NoHandlerAfterUnmount ==
    phase = "unmounted" => (~observing /\ windowListeners = {})

\* C10: while mounted, the container holds the element of the current
\* props.viewer and of no other viewer; componentDidUpdate with a new viewer
\* sizes it to the content rect observed, if any, and with the same viewer it
\* changes nothing.
C10_ContainerHoldsCurrentViewer ==
    /\ [](phase = "mounted" => containerChildren = {propsViewer})
    /\ [][(\E v \in ViewerIds : ComponentDidUpdate(v)) =>
            IF propsViewer' = propsViewer
            THEN UNCHANGED <<containerChildren, viewers, lastContentRect,
                             resizeTask, observing, windowListeners>>
            ELSE /\ containerChildren' = {propsViewer'}
                 /\ lastContentRect # NoRect =>
                       viewers'[propsViewer'].size = lastContentRect
                 /\ lastContentRect = NoRect => viewers' = viewers]_vars

\* A second viewer took the place of one that had been sized.
C10_Witness ==
    /\ phase = "mounted"
    /\ lastContentRect # NoRect
    /\ containerChildren = {propsViewer}
    /\ viewers[propsViewer].size = lastContentRect
    /\ \E v \in ViewerIds \ {propsViewer} : viewers[v].size # NoRect

====
